---- MODULE Spec2Model ----
(***************************************************************************)
(* Model of src/CrearPelicula.py: the AWS Lambda handler lambda_handler,   *)
(* which validates a request envelope, generates a uuid and puts one item  *)
(* into a DynamoDB table, logging to stdout and returning a response.      *)
(*                                                                         *)
(* Python values are tagged records [t, s, a, d]: t is the Python type     *)
(* name, s the text of a scalar, a the elements of a list, d the items of  *)
(* a dict, kept as a sequence of <<key, value>> pairs in insertion order.  *)
(* JSON text is a sequence of lexemes [k, v]; json.loads is a recursive    *)
(* descent parser over the lexemes and json.dumps a printer to lexemes.    *)
(***************************************************************************)
EXTENDS Integers, Sequences, FiniteSets, TLC

\* ---------------------------------------------------------------- bounds
\* Number of invocations of lambda_handler in one behaviour.
MaxCalls == 3

\* ------------------------------------------------------- Python values
PyVal(t, s, a, d) == [t |-> t, s |-> s, a |-> a, d |-> d]
PyNone == PyVal("NoneType", "None", <<>>, <<>>)
PyBool(b) == PyVal("bool", IF b THEN "True" ELSE "False", <<>>, <<>>)
PyInt(s) == PyVal("int", s, <<>>, <<>>)
PyStr(s) == PyVal("str", s, <<>>, <<>>)
PyList(a) == PyVal("list", "", a, <<>>)
PyDict(d) == PyVal("dict", "", <<>>, d)

\* key in d, for the items d of a dict
DictHas(d, k) == \E i \in 1..Len(d) : d[i][1] = k

\* d[k], for a key the dict holds
DictGet(d, k) == d[CHOOSE i \in 1..Len(d) : d[i][1] = k][2]

\* d[k] = v: an existing key keeps its position, a new key is appended
DictPut(d, k, v) ==
    IF DictHas(d, k)
    THEN [i \in 1..Len(d) |-> IF d[i][1] = k THEN <<k, v>> ELSE d[i]]
    ELSE Append(d, <<k, v>>)

\* An exception instance: its class and its single argument.
Exc(cls, msg) == [cls |-> cls, msg |-> msg]
NoExc == Exc("", "")

\* The classes an exception class derives from (itself included).
Mro(cls) ==
    CASE cls = "JSONDecodeError" -> {"JSONDecodeError", "ValueError", "Exception"}
      [] cls \in {"EndpointConnectionError", "NoRegionError"} ->
             {cls, "BotoCoreError", "Exception"}
      [] cls = "InvalidRegionError" ->
             {"InvalidRegionError", "ValidationError", "BotoCoreError", "ValueError",
              "Exception"}
      [] cls = "ReadTimeoutError" ->
             {"ReadTimeoutError", "HTTPClientError", "BotoCoreError", "OSError",
              "Exception"}
      [] OTHER -> {cls, "Exception"}

\* isinstance(e, classes)
IsInstance(e, classes) == Mro(e.cls) \cap classes /= {}

\* repr(s) of a str holding single quotes and no double quote: Python
\* delimits it with double quotes.
Repr(s) ==
    CASE s = "Falta 'tenant_id' en el body." -> "\"Falta 'tenant_id' en el body.\""
      [] s = "Falta 'pelicula_datos' en el body." ->
             "\"Falta 'pelicula_datos' en el body.\""

\* str(e): BaseException.__str__ gives the argument, KeyError.__str__ its repr.
StrExc(e) == IF e.cls = "KeyError" THEN Repr(e.msg) ELSE e.msg

\* ------------------------------------------------------------ JSON text
Tok(k, v) == [k |-> k, v |-> v]
LBrace == Tok("punct", "{")
RBrace == Tok("punct", "}")
LBrack == Tok("punct", "[")
RBrack == Tok("punct", "]")
Colon == Tok("punct", ":")
Comma == Tok("punct", ",")
Ws == Tok("ws", " ")
Nl == Tok("ws", "\n")
StrTok(s) == Tok("string", s)

\* The lexemes of the request body texts of the model. A "string" lexeme
\* stands for the JSON string literal of the given content, a "bad" lexeme
\* for characters that start no JSON token.
Lex(s) ==
    CASE s = "" -> <<>>
      [] s = "  " -> <<Ws, Ws>>
      [] s = "{\"tenant_id\": \"t1\", \"pelicula_datos\": {\"titulo\": \"X\"}}" ->
             <<LBrace, StrTok("tenant_id"), Colon, Ws, StrTok("t1"), Comma, Ws,
               StrTok("pelicula_datos"), Colon, Ws,
               LBrace, StrTok("titulo"), Colon, Ws, StrTok("X"), RBrace, RBrace>>
      [] s = " {\"pelicula_datos\": \"d2\", \"tenant_id\": \"t2\"} " ->
             <<Ws, LBrace, StrTok("pelicula_datos"), Colon, Ws, StrTok("d2"), Comma,
               Ws, StrTok("tenant_id"), Colon, Ws, StrTok("t2"), RBrace, Ws>>
      [] s = "{\"tenant_id\": \"t1\"}" ->
             <<LBrace, StrTok("tenant_id"), Colon, Ws, StrTok("t1"), RBrace>>
      [] s = "{\"pelicula_datos\": \"d1\"}" ->
             <<LBrace, StrTok("pelicula_datos"), Colon, Ws, StrTok("d1"), RBrace>>
      [] s = "{}" -> <<LBrace, RBrace>>
      [] s = "{\"tenant_id\": \"t1\"" ->
             <<LBrace, StrTok("tenant_id"), Colon, Ws, StrTok("t1")>>
      [] s = "{\n\"tenant_id\": \"t1\"\n" ->
             <<LBrace, Nl, StrTok("tenant_id"), Colon, Ws, StrTok("t1"), Nl>>
      [] s = "{tenant_id: t1}" ->
             <<LBrace, Tok("bad", "tenant_id"), Colon, Ws, Tok("bad", "t1"), RBrace>>
      [] s = "{\"tenant_id\": \"t1\",}" ->
             <<LBrace, StrTok("tenant_id"), Colon, Ws, StrTok("t1"), Comma, RBrace>>
      [] s = "{}{}" -> <<LBrace, RBrace, LBrace, RBrace>>
      [] s = "5" -> <<Tok("number", "5")>>
      [] s = "null" -> <<Tok("null", "null")>>
      [] s = "true" -> <<Tok("true", "true")>>
      [] s = "\"abc\"" -> <<StrTok("abc")>>
      [] s = "\"tenant_id\"" -> <<StrTok("tenant_id")>>
      [] s = "\"tenant_id pelicula_datos\"" -> <<StrTok("tenant_id pelicula_datos")>>
      [] s = "[]" -> <<LBrack, RBrack>>
      [] s = "[\"tenant_id\"]" -> <<LBrack, StrTok("tenant_id"), RBrack>>
      [] s = "[\"tenant_id\", \"pelicula_datos\"]" ->
             <<LBrack, StrTok("tenant_id"), Comma, Ws, StrTok("pelicula_datos"), RBrack>>

\* body.strip(): the text without its leading and trailing whitespace is
\* empty exactly when every lexeme of it is whitespace.
StripIsEmpty(s) == \A i \in 1..Len(Lex(s)) : Lex(s)[i].k = "ws"

\* needle in s, for the str values the model decodes
StrContains(s, needle) ==
    \/ s = needle
    \/ s = "tenant_id pelicula_datos" /\ needle \in {"tenant_id", "pelicula_datos"}

RECURSIVE SkipWs(_, _)
\* The first index from i on that holds no whitespace lexeme.
SkipWs(toks, i) ==
    IF i <= Len(toks) /\ toks[i].k = "ws" THEN SkipWs(toks, i + 1) ELSE i

\* The characters a lexeme takes in the text; the string literals of the
\* model hold no escape.
TokLen(tok) == IF tok.k = "string" THEN Len(tok.v) + 2 ELSE Len(tok.v)

RECURSIVE CharPos(_, _)
\* The index in the text (from 0) of the first character of lexeme i, the
\* length of the text for i past the last lexeme.
CharPos(toks, i) == IF i <= 1 THEN 0 ELSE CharPos(toks, i - 1) + TokLen(toks[i - 1])

\* json.decoder.JSONDecodeError.__init__: the line and the column of the
\* character at lexeme i, counted from the newlines before it.
LineNo(toks, i) == 1 + Cardinality({n \in 1..(i - 1) : toks[n] = Nl})
ColNo(toks, i) ==
    LET nls == {n \in 1..(i - 1) : toks[n] = Nl} IN
    IF nls = {} THEN CharPos(toks, i) + 1
    ELSE CharPos(toks, i) - CharPos(toks, CHOOSE n \in nls : \A m \in nls : m <= n)

\* The text of a JSONDecodeError: "msg: line L column C (char N)".
ErrMsg(msg, toks, i) ==
    msg \o ": line " \o ToString(LineNo(toks, i)) \o " column "
        \o ToString(ColNo(toks, i)) \o " (char " \o ToString(CharPos(toks, i)) \o ")"

\* The outcome of reading a value: err and the lexeme at where reading
\* failed, or the value and the lexeme next after it.
ParseErr(msg, at) == [err |-> msg, at |-> at, val |-> PyNone, next |-> 0]
ParseOk(val, next) == [err |-> "", at |-> 0, val |-> val, next |-> next]

RECURSIVE ParseValue(_, _)
RECURSIVE ParseElems(_, _, _)
RECURSIVE ParseMembers(_, _, _)

\* json.JSONDecoder.raw_decode: the value starting at lexeme i.
ParseValue(toks, i) ==
    IF i > Len(toks) THEN ParseErr("Expecting value", i)
    ELSE LET tok == toks[i] IN
         CASE tok.k = "null" -> ParseOk(PyNone, i + 1)
           [] tok.k = "true" -> ParseOk(PyBool(TRUE), i + 1)
           [] tok.k = "false" -> ParseOk(PyBool(FALSE), i + 1)
           [] tok.k = "number" -> ParseOk(PyInt(tok.v), i + 1)
           [] tok.k = "string" -> ParseOk(PyStr(tok.v), i + 1)
           [] tok = LBrack ->
                  LET j == SkipWs(toks, i + 1) IN
                  IF j <= Len(toks) /\ toks[j] = RBrack
                  THEN ParseOk(PyList(<<>>), j + 1)
                  ELSE ParseElems(toks, j, <<>>)
           [] tok = LBrace ->
                  LET j == SkipWs(toks, i + 1) IN
                  IF j <= Len(toks) /\ toks[j] = RBrace
                  THEN ParseOk(PyDict(<<>>), j + 1)
                  ELSE ParseMembers(toks, j, <<>>)
           [] OTHER -> ParseErr("Expecting value", i)

\* The elements of an array from lexeme i on, acc holding those read.
ParseElems(toks, i, acc) ==
    LET r == ParseValue(toks, i)
        j == SkipWs(toks, r.next)
    IN  IF r.err /= "" THEN r
        ELSE IF j > Len(toks) THEN ParseErr("Expecting ',' delimiter", j)
        ELSE IF toks[j] = RBrack THEN ParseOk(PyList(Append(acc, r.val)), j + 1)
        ELSE IF toks[j] = Comma
             THEN ParseElems(toks, SkipWs(toks, j + 1), Append(acc, r.val))
        ELSE ParseErr("Expecting ',' delimiter", j)

\* The members of an object from lexeme i on, acc holding those read.
ParseMembers(toks, i, acc) ==
    IF i > Len(toks) \/ toks[i].k /= "string"
    THEN ParseErr("Expecting property name enclosed in double quotes", i)
    ELSE LET c == SkipWs(toks, i + 1) IN
         IF c > Len(toks) \/ toks[c] /= Colon
         THEN ParseErr("Expecting ':' delimiter", c)
         ELSE LET r == ParseValue(toks, SkipWs(toks, c + 1))
                  j == SkipWs(toks, r.next)
                  d == DictPut(acc, toks[i].v, r.val)
              IN  IF r.err /= "" THEN r
                  ELSE IF j > Len(toks) THEN ParseErr("Expecting ',' delimiter", j)
                  ELSE IF toks[j] = RBrace THEN ParseOk(PyDict(d), j + 1)
                  ELSE IF toks[j] = Comma
                       THEN ParseMembers(toks, SkipWs(toks, j + 1), d)
                  ELSE ParseErr("Expecting ',' delimiter", j)

\* json.JSONDecoder.decode after raw_decode gave r: the error of r, or
\* "Extra data" when lexeme end, the first after the value that is no
\* whitespace, is not the end of the text: [exc, val].
Decoded(toks, r, end) ==
    IF r.err /= ""
    THEN [exc |-> Exc("JSONDecodeError", ErrMsg(r.err, toks, r.at)), val |-> PyNone]
    ELSE IF end <= Len(toks)
         THEN [exc |-> Exc("JSONDecodeError", ErrMsg("Extra data", toks, end)),
               val |-> PyNone]
    ELSE [exc |-> NoExc, val |-> r.val]

\* The lexeme where the text ends or goes on after the value r.
EndOf(toks, r) == IF r.err /= "" THEN 0 ELSE SkipWs(toks, r.next)

\* The value at the first lexeme that is no whitespace, with where it ends.
Decode(toks, r) == Decoded(toks, r, EndOf(toks, r))

\* json.loads of a text given by its lexemes: [exc, val]
LoadsToks(toks) == Decode(toks, ParseValue(toks, SkipWs(toks, 1)))

\* json.loads(s)
Loads(s) == LoadsToks(Lex(s))

RECURSIVE Dumps(_)
RECURSIVE DumpsElems(_, _)
RECURSIVE DumpsItems(_, _)

\* The elements a[i..] of a list, separated by ", ".
DumpsElems(a, i) ==
    IF i > Len(a) THEN <<>>
    ELSE (IF i > 1 THEN <<Comma, Ws>> ELSE <<>>) \o Dumps(a[i]) \o DumpsElems(a, i + 1)

\* The items d[i..] of a dict, as "key": value separated by ", ".
DumpsItems(d, i) ==
    IF i > Len(d) THEN <<>>
    ELSE (IF i > 1 THEN <<Comma, Ws>> ELSE <<>>)
         \o <<StrTok(d[i][1]), Colon, Ws>> \o Dumps(d[i][2]) \o DumpsItems(d, i + 1)

\* json.dumps(v, ensure_ascii=False), as lexemes
Dumps(v) ==
    CASE v.t = "NoneType" -> <<Tok("null", "null")>>
      [] v.t = "bool" -> IF v.s = "True" THEN <<Tok("true", "true")>>
                         ELSE <<Tok("false", "false")>>
      [] v.t = "int" -> <<Tok("number", v.s)>>
      [] v.t = "str" -> <<StrTok(v.s)>>
      [] v.t = "list" -> <<LBrack>> \o DumpsElems(v.a, 1) \o <<RBrack>>
      [] v.t = "dict" -> <<LBrace>> \o DumpsItems(v.d, 1) \o <<RBrace>>

\* ------------------------------------------------------------- handler
TABLE_ENV_NAME == "TABLE_NAME"

\* os.environ.get(name), for the items environ of os.environ
EnvironGet(environ, name) ==
    IF DictHas(environ, name) THEN PyStr(DictGet(environ, name)) ELSE PyNone

\* not v, for v None or a str
Falsy(v) == v.t = "NoneType" \/ (v.t = "str" /\ v.s = "")

\* The line _log_info prints.
LogInfo(datos) ==
    Dumps(PyDict(<< <<"tipo", PyStr("INFO")>>, <<"log_datos", datos>> >>))

\* The line _log_error prints.
LogError(datos) ==
    Dumps(PyDict(<< <<"tipo", PyStr("ERROR")>>, <<"log_datos", datos>> >>))

Value(v) == [exc |-> NoExc, val |-> v]
Raise(e) == [exc |-> e, val |-> PyNone]

\* _parse_event_body with a blank string body falling back to the top-level
\* fields of the event (body = event.get("body") or event).
ParseEventBodyBlankFallback(event) ==
    IF event.t = "dict" /\ DictHas(event.d, "body")
    THEN LET body == DictGet(event.d, "body") IN
         IF body.t = "str"
         THEN IF ~StripIsEmpty(body.s) THEN Loads(body.s) ELSE Value(event)
         ELSE IF body.t /= "dict"
              THEN Raise(Exc("ValueError", "El campo 'body' debe ser dict o string JSON."))
         ELSE Value(body)
    ELSE Value(IF event.t = "dict" THEN event ELSE PyDict(<<>>))

\* _parse_event_body(event): [exc, val]
ParseEventBody(event) ==
    IF event.t = "dict" /\ DictHas(event.d, "body")
    THEN LET body == DictGet(event.d, "body") IN
         IF body.t = "str"
         THEN IF ~StripIsEmpty(body.s) THEN Loads(body.s) ELSE Value(PyDict(<<>>))
         ELSE IF body.t /= "dict"
              THEN Raise(Exc("ValueError", "El campo 'body' debe ser dict o string JSON."))
         ELSE Value(body)
    ELSE Value(IF event.t = "dict" THEN event ELSE PyDict(<<>>))

\* key in c: [exc, val] with val a Boolean. A dict is asked for the key, a
\* str for the substring, a list for an equal element; any other type raises.
PyIn(key, c) ==
    CASE c.t = "dict" -> [exc |-> NoExc, val |-> DictHas(c.d, key)]
      [] c.t = "str" -> [exc |-> NoExc, val |-> StrContains(c.s, key)]
      [] c.t = "list" -> [exc |-> NoExc, val |-> \E i \in 1..Len(c.a) : c.a[i] = PyStr(key)]
      [] c.t = "int" ->
             [exc |-> Exc("TypeError", "argument of type 'int' is not iterable"),
              val |-> FALSE]
      [] c.t = "bool" ->
             [exc |-> Exc("TypeError", "argument of type 'bool' is not iterable"),
              val |-> FALSE]
      [] c.t = "NoneType" ->
             [exc |-> Exc("TypeError", "argument of type 'NoneType' is not iterable"),
              val |-> FALSE]

\* c[key] for a str key the container was found to hold: [exc, val]
Subscript(c, key) ==
    CASE c.t = "dict" -> Value(DictGet(c.d, key))
      [] c.t = "str" -> Raise(Exc("TypeError", "string indices must be integers, not 'str'"))
      [] c.t = "list" ->
             Raise(Exc("TypeError", "list indices must be integers or slices, not str"))

\* The configuration check of the try block: the exception it raises, or NoExc.
CheckTabla(environ) ==
    IF Falsy(EnvironGet(environ, TABLE_ENV_NAME))
    THEN Exc("RuntimeError", "Variable de entorno 'TABLE_NAME' no definida.")
    ELSE NoExc

\* The presence checks of the try block on the resolved body.
CheckFields(body) ==
    LET hasT == PyIn("tenant_id", body)
        hasP == PyIn("pelicula_datos", body)
    IN  IF hasT.exc /= NoExc THEN hasT.exc
        ELSE IF ~hasT.val THEN Exc("KeyError", "Falta 'tenant_id' en el body.")
        ELSE IF hasP.exc /= NoExc THEN hasP.exc
        ELSE IF ~hasP.val THEN Exc("KeyError", "Falta 'pelicula_datos' en el body.")
        ELSE NoExc

\* The try block raising e before the item is built.
ValidarRaise(e) == [exc |-> e, tenant_id |-> PyNone, pelicula_datos |-> PyNone]

\* The two subscripts of the try block, tenant and datos their outcomes.
ValidarSubscripts(tenant, datos) ==
    IF tenant.exc /= NoExc THEN ValidarRaise(tenant.exc)
    ELSE IF datos.exc /= NoExc THEN ValidarRaise(datos.exc)
    ELSE [exc |-> NoExc, tenant_id |-> tenant.val, pelicula_datos |-> datos.val]

\* The try block from the presence checks on, fields their outcome.
ValidarFields(body, fields) ==
    IF fields /= NoExc THEN ValidarRaise(fields)
    ELSE ValidarSubscripts(Subscript(body, "tenant_id"), Subscript(body, "pelicula_datos"))

\* The try block from the parsed body on.
ValidarBody(parsed) ==
    IF parsed.exc /= NoExc THEN ValidarRaise(parsed.exc)
    ELSE ValidarFields(parsed.val, CheckFields(parsed.val))

\* The try block up to the generation of the uuid:
\* [exc, tenant_id, pelicula_datos].
Validar(environ, event) ==
    IF CheckTabla(environ) /= NoExc THEN ValidarRaise(CheckTabla(environ))
    ELSE ValidarBody(ParseEventBody(event))

\* The item built with the tenant_id in the place of pelicula_datos.
PeliculaDatosCambiados(tenant_id, uuidv4, pelicula_datos) ==
    PyDict(<< <<"tenant_id", tenant_id>>, <<"uuid", PyStr(uuidv4)>>,
              <<"pelicula_datos", tenant_id>> >>)

\* The item to insert.
Pelicula(tenant_id, uuidv4, pelicula_datos) ==
    PyDict(<< <<"tenant_id", tenant_id>>, <<"uuid", PyStr(uuidv4)>>,
              <<"pelicula_datos", pelicula_datos>> >>)

\* What an invocation hands to its caller: nothing yet, a returned response
\* {"statusCode", "body"} or an exception that left lambda_handler.
NoResult == [kind |-> "none", statusCode |-> 0, body |-> <<>>, exc |-> NoExc]
Returned(status, body) ==
    [kind |-> "return", statusCode |-> status, body |-> body, exc |-> NoExc]
Raised(e) == [kind |-> "raise", statusCode |-> 0, body |-> <<>>, exc |-> e]

\* traceback.format_exc(limit): the text is not modelled beyond its limit.
FormatExc(limit) ==
    IF limit = 3 THEN "Traceback (most recent call last): <3 frames>"
    ELSE "Traceback (most recent call last): <5 frames>"

\* The message of the AttributeError that v.get raises for v not a dict.
NoGetAttr(v) ==
    CASE v.t = "str" -> "'str' object has no attribute 'get'"
      [] v.t = "list" -> "'list' object has no attribute 'get'"
      [] v.t = "int" -> "'int' object has no attribute 'get'"
      [] v.t = "bool" -> "'bool' object has no attribute 'get'"
      [] v.t = "NoneType" -> "'NoneType' object has no attribute 'get'"

\* The body of an error response.
ErrorBody(mensaje, tipo_error) ==
    Dumps(PyDict(<< <<"error", PyDict(<< <<"mensaje", PyStr(mensaje)>>,
                                         <<"tipo_error", PyStr(tipo_error)>> >>)>> >>))

\* The fields both except clauses log.
ErrBase(e, environ, limit) ==
    << <<"operacion", PyStr("crear_pelicula")>>,
       <<"estado", PyStr("error")>>,
       <<"mensaje", PyStr(StrExc(e))>>,
       <<"tipo_error", PyStr(e.cls)>>,
       <<"traceback", PyStr(FormatExc(limit))>>,
       <<"tabla", EnvironGet(environ, TABLE_ENV_NAME)>> >>

\* The status of the first except clause.
StatusEsperable(e) ==
    IF IsInstance(e, {"ValueError", "KeyError", "RuntimeError"}) THEN 400 ELSE 500

\* body_dbg of the first except clause: the body parsed again, {} when the
\* parse raises.
BodyDbg(parsed) == IF parsed.exc /= NoExc THEN PyDict(<<>>) ELSE parsed.val

\* entrada_relevante of the first except clause, for body_dbg a dict.
EntradaRelevante(body_dbg) ==
    PyDict(<< <<"tenant_id", IF DictHas(body_dbg.d, "tenant_id")
                             THEN DictGet(body_dbg.d, "tenant_id") ELSE PyNone>>,
              <<"tiene_pelicula_datos", PyBool(DictHas(body_dbg.d, "pelicula_datos"))>> >>)

\* The first except clause once body_dbg is there: body_dbg.get raises for
\* body_dbg no dict, else the ERROR line is printed and the response returned.
ExceptEsperableCon(e, environ, body_dbg) ==
    IF body_dbg.t /= "dict"
    THEN [lines |-> <<>>, result |-> Raised(Exc("AttributeError", NoGetAttr(body_dbg)))]
    ELSE [lines |-> <<LogError(PyDict(Append(ErrBase(e, environ, 3),
                          <<"entrada_relevante", EntradaRelevante(body_dbg)>>)))>>,
          result |-> Returned(StatusEsperable(e), ErrorBody(StrExc(e), e.cls))]

\* except (ClientError, ValueError, KeyError, RuntimeError) as e:
\* [lines, result], the lines printed and what the caller gets.
ExceptEsperable(e, environ, event) ==
    ExceptEsperableCon(e, environ, BodyDbg(ParseEventBody(event)))

\* except Exception as e: [lines, result]
ExceptInesperado(e, environ) ==
    [lines |-> <<LogError(PyDict(ErrBase(e, environ, 5)))>>,
     result |-> Returned(500, ErrorBody("Error interno inesperado.", e.cls))]

\* The except clauses of lambda_handler, the first that matches e.
HandleException(e, environ, event) ==
    IF IsInstance(e, {"ClientError", "ValueError", "KeyError", "RuntimeError"})
    THEN ExceptEsperable(e, environ, event)
    ELSE ExceptInesperado(e, environ)

\* response.get("ResponseMetadata", {}).get("HTTPStatusCode", None)
HttpStatus(response) ==
    LET meta == IF DictHas(response.d, "ResponseMetadata")
                THEN DictGet(response.d, "ResponseMetadata") ELSE PyDict(<<>>)
    IN  IF DictHas(meta.d, "HTTPStatusCode") THEN DictGet(meta.d, "HTTPStatusCode")
        ELSE PyNone

\* The INFO line after the write.
LogOk(environ, pelicula, response) ==
    LogInfo(PyDict(<< <<"operacion", PyStr("crear_pelicula")>>,
                      <<"estado", PyStr("ok")>>,
                      <<"tabla", EnvironGet(environ, TABLE_ENV_NAME)>>,
                      <<"tenant_id", DictGet(pelicula.d, "tenant_id")>>,
                      <<"uuid", DictGet(pelicula.d, "uuid")>>,
                      <<"http_status", HttpStatus(response)>> >>))

\* The success response.
OkResponse(pelicula, response) ==
    Returned(200, Dumps(PyDict(<< <<"pelicula", pelicula>>,
        <<"response", PyDict(<< <<"http_status", HttpStatus(response)>> >>)>> >>)))

\* ------------------------------------------------------------- the table
\* The primary key of an item of the table: partition key and sort key.
ItemKey(item) == <<DictGet(item.d, "tenant_id"), DictGet(item.d, "uuid")>>

\* table.put_item(Item=item) when DynamoDB accepts it: the item replaces
\* the item of the same key, if any.
PutItem(items, item) == {x \in items : ItemKey(x) /= ItemKey(item)} \cup {item}

\* What DynamoDB answers to an accepted put_item.
PutItemResponse ==
    PyDict(<< <<"ResponseMetadata",
                PyDict(<< <<"HTTPStatusCode", PyInt("200")>> >>)>> >>)

\* What boto3.resource("dynamodb") raises when the client cannot be built:
\* no region configured, or one that is no region name (a ValueError).
ResourceErrors ==
    { Exc("NoRegionError", "You must specify a region."),
      Exc("InvalidRegionError", "Provided region_name 'us east' doesn't match a supported format.") }

\* What put_item raises when the write does not happen: the service refuses
\* it (botocore ClientError) or is not reached.
PutItemErrors ==
    { Exc("ClientError", "An error occurred (ResourceNotFoundException) when calling the PutItem operation: Requested resource not found"),
      Exc("ClientError", "An error occurred (AccessDeniedException) when calling the PutItem operation: User is not authorized to perform: dynamodb:PutItem"),
      Exc("EndpointConnectionError", "Could not connect to the endpoint URL: \"https://dynamodb.us-east-1.amazonaws.com/\"") }

\* What put_item raises when the answer to an applied write does not arrive.
PutItemLost ==
    { Exc("ReadTimeoutError", "Read timeout on endpoint URL: \"https://dynamodb.us-east-1.amazonaws.com/\"") }

\* str(uuid.uuid4()): any version 4 uuid; two of them stand for all.
UUIDs == {"3f2b8c1e-5d4a-4f6b-9a7c-0e1d2c3b4a59", "a1b2c3d4-e5f6-4a7b-8c9d-0e1f2a3b4c5d"}

\* ------------------------------------------------------------- requests
T1 == <<"tenant_id", PyStr("t1")>>
T2 == <<"tenant_id", PyStr("t2")>>
D1 == <<"pelicula_datos", PyStr("d1")>>
D2 == <<"pelicula_datos", PyStr("d2")>>
DX == <<"pelicula_datos", PyDict(<< <<"titulo", PyStr("X")>> >>)>>

\* The top-level fields of an envelope, beside "body".
Tops == { <<>>, <<T1>>, <<D1>>, <<T1, D1>> }

\* The top-level fields of an envelope that has a "body" key.
BodyTops == { <<>>, <<T1, D1>> }

\* The texts of a string body.
BodyTexts ==
    { "", "  ",
      "{\"tenant_id\": \"t1\", \"pelicula_datos\": {\"titulo\": \"X\"}}",
      " {\"pelicula_datos\": \"d2\", \"tenant_id\": \"t2\"} ",
      "{\"tenant_id\": \"t1\"}", "{\"pelicula_datos\": \"d1\"}", "{}",
      "{\"tenant_id\": \"t1\"", "{\n\"tenant_id\": \"t1\"\n", "{tenant_id: t1}", "{\"tenant_id\": \"t1\",}", "{}{}",
      "5", "null", "true", "\"abc\"", "\"tenant_id\"", "\"tenant_id pelicula_datos\"",
      "[]", "[\"tenant_id\"]", "[\"tenant_id\", \"pelicula_datos\"]" }

\* The values of the "body" key of an envelope.
Bodies ==
    { PyDict(<<>>), PyDict(<<T2>>), PyDict(<<D2>>), PyDict(<<T2, D2>>), PyDict(<<T1, DX>>) }
    \cup { PyStr(s) : s \in BodyTexts }
    \cup { PyNone, PyInt("5"), PyList(<<>>) }

\* The events lambda_handler is invoked with.
Envelopes ==
    { PyDict(top) : top \in Tops }
    \cup { PyDict(<< <<"body", b>> >> \o top) : b \in Bodies, top \in BodyTops }
    \cup { PyList(<<>>), PyNone }

\* The events of the concurrent instances.
ConcEnvelopes ==
    { PyDict(<< <<"body", PyDict(<<T1, D1>>)>> >>),
      PyDict(<<T1, D2>>),
      PyDict(<<T2, D2>>),
      PyDict(<< <<"body", PyDict(<<T1>>)>> >>),
      PyDict(<< <<"body", PyStr("5")>> >>) }

\* The values of os.environ the handler reads.
Environs == { <<>>, << <<"TABLE_NAME", "">> >>, << <<"TABLE_NAME", "peliculas">> >> }

\* The handler instances: one, or two running concurrently.
Instances == {1, 2}

\* No put_item call yet.
NoPut == [called |-> FALSE, written |-> FALSE, exc |-> NoExc]

\* --------------------------------------------------------------- state
VARIABLES
    environ,    \* os.environ, as items
    items,      \* the items of the DynamoDB table
    pc,         \* pc[i]: where instance i is: "idle", "try", "put" (item
                \* built), "wrote" (inside put_item, write applied), "done"
    event,      \* event[i]: the event of the invocation of instance i
    pelicula,   \* pelicula[i]: the item built by the invocation
    stdout,     \* stdout[i]: the lines the invocation printed
    result,     \* result[i]: what the invocation handed to its caller
    put,        \* put[i]: whether the invocation called put_item, whether
                \* the table applied the write, and what was raised after
                \* the item was built
    calls,      \* invocations started
    writes,     \* put_item calls the table applied
    oks         \* invocations that returned statusCode 200

vars == <<environ, items, pc, event, pelicula, stdout, result, put, calls, writes, oks>>

Init ==
    /\ environ \in Environs
    /\ items = {}
    /\ pc = [i \in Instances |-> "idle"]
    /\ event = [i \in Instances |-> PyNone]
    /\ pelicula = [i \in Instances |-> PyNone]
    /\ stdout = [i \in Instances |-> <<>>]
    /\ result = [i \in Instances |-> NoResult]
    /\ put = [i \in Instances |-> NoPut]
    /\ calls = 0
    /\ writes = 0
    /\ oks = 0

\* lambda_handler(e, context) is entered: the log of the raw event.
Invoke(i, e) ==
    /\ pc[i] \in {"idle", "done"}
    /\ calls < MaxCalls
    /\ calls' = calls + 1
    /\ event' = [event EXCEPT ![i] = e]
    /\ stdout' = [stdout EXCEPT ![i] = <<LogInfo(PyDict(<< <<"evento_entrada", e>> >>))>>]
    /\ result' = [result EXCEPT ![i] = NoResult]
    /\ pelicula' = [pelicula EXCEPT ![i] = PyNone]
    /\ put' = [put EXCEPT ![i] = NoPut]
    /\ pc' = [pc EXCEPT ![i] = "try"]
    /\ UNCHANGED <<environ, items, writes, oks>>

\* The invocation ends with what an except clause did: h = [lines, result].
EndWith(i, h) ==
    /\ stdout' = [stdout EXCEPT ![i] = stdout[i] \o h.lines]
    /\ result' = [result EXCEPT ![i] = h.result]
    /\ pc' = [pc EXCEPT ![i] = "done"]

\* The invocation ends in an except clause, handling e.
Except(i, e) == EndWith(i, HandleException(e, environ, event[i]))

\* The try block passes its checks and builds the item with a new uuid.
ValidateOk(i) ==
    /\ pc[i] = "try"
    /\ \E v \in {Validar(environ, event[i])} :
         /\ v.exc = NoExc
         /\ \E uuidv4 \in UUIDs :
              pelicula' = [pelicula EXCEPT ![i] =
                             Pelicula(v.tenant_id, uuidv4, v.pelicula_datos)]
    /\ pc' = [pc EXCEPT ![i] = "put"]
    /\ UNCHANGED <<environ, items, event, stdout, result, put, calls, writes, oks>>

\* The try block raises before the write.
ValidateRaise(i) ==
    /\ pc[i] = "try"
    /\ \E v \in {Validar(environ, event[i])} :
         /\ v.exc /= NoExc
         /\ Except(i, v.exc)
    /\ UNCHANGED <<environ, items, event, pelicula, put, calls, writes, oks>>

\* boto3.resource or dynamodb.Table raises: put_item is not called and an
\* except clause answers.
ResourceRaise(i) ==
    /\ pc[i] = "put"
    /\ \E e \in ResourceErrors :
         /\ put' = [put EXCEPT ![i] = [called |-> FALSE, written |-> FALSE, exc |-> e]]
         /\ Except(i, e)
    /\ UNCHANGED <<environ, items, event, pelicula, calls, writes, oks>>

\* put_item is called and the table left as it was.
PutItemSinEscribir(i) ==
    /\ pc[i] = "put"
    /\ put' = [put EXCEPT ![i] = [called |-> TRUE, written |-> TRUE, exc |-> NoExc]]
    /\ writes' = writes + 1
    /\ pc' = [pc EXCEPT ![i] = "wrote"]
    /\ UNCHANGED <<environ, items, event, pelicula, stdout, result, calls, oks>>

\* put_item is called and the table applies the write; the call has not
\* returned yet.
PutItemWrite(i) ==
    /\ pc[i] = "put"
    /\ items' = PutItem(items, pelicula[i])
    /\ put' = [put EXCEPT ![i] = [called |-> TRUE, written |-> TRUE, exc |-> NoExc]]
    /\ writes' = writes + 1
    /\ pc' = [pc EXCEPT ![i] = "wrote"]
    /\ UNCHANGED <<environ, event, pelicula, stdout, result, calls, oks>>

\* put_item returns: the INFO line is printed and the success response
\* returned.
PutItemOk(i) ==
    /\ pc[i] = "wrote"
    /\ stdout' = [stdout EXCEPT ![i] =
                    Append(stdout[i], LogOk(environ, pelicula[i], PutItemResponse))]
    /\ result' = [result EXCEPT ![i] = OkResponse(pelicula[i], PutItemResponse)]
    /\ oks' = oks + 1
    /\ pc' = [pc EXCEPT ![i] = "done"]
    /\ UNCHANGED <<environ, items, event, pelicula, put, calls, writes>>

\* put_item raises after the table applied the write: an except clause
\* answers.
PutItemLostRaise(i) ==
    /\ pc[i] = "wrote"
    /\ \E e \in PutItemLost :
         /\ put' = [put EXCEPT ![i] = [called |-> TRUE, written |-> TRUE, exc |-> e]]
         /\ Except(i, e)
    /\ UNCHANGED <<environ, items, event, pelicula, calls, writes, oks>>

\* put_item raises: nothing is written and an except clause answers.
PutItemRaise(i) ==
    /\ pc[i] = "put"
    /\ \E e \in PutItemErrors :
         /\ put' = [put EXCEPT ![i] = [called |-> TRUE, written |-> FALSE, exc |-> e]]
         /\ Except(i, e)
    /\ UNCHANGED <<environ, items, event, pelicula, calls, writes, oks>>

\* One handler instance, invoked again and again with any event.
Next ==
    \/ \E e \in Envelopes : Invoke(1, e)
    \/ ValidateOk(1)
    \/ ValidateRaise(1)
    \/ ResourceRaise(1)
    \/ PutItemWrite(1)
    \/ PutItemOk(1)
    \/ PutItemLostRaise(1)
    \/ PutItemRaise(1)

Spec == Init /\ [][Next]_vars

\* Two handler instances running concurrently on the same table.
NextConc ==
    \E i \in Instances :
        \/ \E e \in ConcEnvelopes : Invoke(i, e)
        \/ ValidateOk(i)
        \/ ValidateRaise(i)
        \/ ResourceRaise(i)
        \/ PutItemWrite(i)
        \/ PutItemOk(i)
        \/ PutItemLostRaise(i)
        \/ PutItemRaise(i)

SpecConc == Init /\ [][NextConc]_vars

\* ---------------------------------------------------- reading the output
\* v[k] of a dict v, None when v is no dict or lacks k.
Field(v, k) == IF v.t = "dict" /\ DictHas(v.d, k) THEN DictGet(v.d, k) ELSE PyNone

\* The keys of a dict.
Keys(v) == {v.d[n][1] : n \in 1..Len(v.d)}

\* The response body of instance i, decoded.
Resp(i) == LoadsToks(result[i].body).val
RespPelicula(i) == Field(Resp(i), "pelicula")
ErrMensaje(i) == Field(Field(Resp(i), "error"), "mensaje")
ErrTipo(i) == Field(Field(Resp(i), "error"), "tipo_error")

\* Line n of the output of instance i, decoded, and its log_datos.
LogLine(i, n) == LoadsToks(stdout[i][n]).val
LogDatos(i, n) == Field(LogLine(i, n), "log_datos")
ErrorLines(i) == {n \in 1..Len(stdout[i]) : Field(LogLine(i, n), "tipo") = PyStr("ERROR")}

Done(i) == pc[i] = "done"
Returns(i, status) == result[i].kind = "return" /\ result[i].statusCode = status
Configured == DictHas(environ, "TABLE_NAME") /\ DictGet(environ, "TABLE_NAME") /= ""

\* The envelope rules as the specification states them.
HasBody(e) == e.t = "dict" /\ DictHas(e.d, "body")
BodyOf(e) == DictGet(e.d, "body")
Blank(b) == b.t = "str" /\ \A n \in 1..Len(Lex(b.s)) : Lex(b.s)[n].k = "ws"
TextBody(e) == HasBody(e) /\ BodyOf(e).t = "str" /\ ~Blank(BodyOf(e))
\* The mapping the rules resolve e to, None when they resolve to none.
Resolved(e) ==
    IF HasBody(e)
    THEN IF Blank(BodyOf(e)) THEN PyDict(<<>>)
         ELSE IF BodyOf(e).t = "str"
              THEN IF Loads(BodyOf(e).s).exc = NoExc /\ Loads(BodyOf(e).s).val.t = "dict"
                   THEN Loads(BodyOf(e).s).val ELSE PyNone
         ELSE IF BodyOf(e).t = "dict" THEN BodyOf(e) ELSE PyNone
    ELSE IF e.t = "dict" THEN e ELSE PyDict(<<>>)
HasBoth(m) == m.t = "dict" /\ DictHas(m.d, "tenant_id") /\ DictHas(m.d, "pelicula_datos")
LacksOne(m) == m.t = "dict" /\ ~HasBoth(m)

MissingTenant == PyStr("Falta 'tenant_id' en el body.")
MissingDatos == PyStr("Falta 'pelicula_datos' en el body.")
Generic == PyStr("Error interno inesperado.")

\* ------------------------------------------------------------------ C1
\* C1: a request whose resolved body is a mapping holding tenant_id and
\* pelicula_datos, with the table configured and nothing raised on the way to
\* the table or by put_item, ends with put_item called, the write applied and
\* statusCode 200; the pelicula of the response has
\* exactly tenant_id and pelicula_datos of the request and a generated uuid,
\* and it is the item written to the table.
C1_CreateReturnsRecord ==
    \A i \in Instances :
        (Done(i) /\ Configured /\ HasBoth(Resolved(event[i])) /\ put[i].exc = NoExc) =>
            /\ put[i].called /\ put[i].written
            /\ Returns(i, 200)
            /\ Keys(RespPelicula(i)) = {"tenant_id", "uuid", "pelicula_datos"}
            /\ Field(RespPelicula(i), "tenant_id") = Field(Resolved(event[i]), "tenant_id")
            /\ Field(RespPelicula(i), "pelicula_datos")
                   = Field(Resolved(event[i]), "pelicula_datos")
            /\ Field(RespPelicula(i), "uuid").t = "str"
            /\ Field(RespPelicula(i), "uuid").s \in UUIDs
            /\ RespPelicula(i) \in items
            /\ Field(Field(Resp(i), "response"), "http_status") = PyInt("200")

C1_Witness ==
    \E i \in Instances :
        /\ Done(i) /\ Configured /\ HasBoth(Resolved(event[i]))
        /\ TextBody(event[i])
        /\ put[i].called /\ put[i].written /\ put[i].exc = NoExc
        /\ Returns(i, 200)

\* ------------------------------------------------------------------ C2
\* C2: every invocation ends by returning a response with statusCode 200,
\* 400 or 500 and a body that is either a pelicula/response payload or an
\* error object with mensaje and tipo_error; no exception reaches the caller.
C2_AlwaysStructuredResponse ==
    \A i \in Instances :
        Done(i) =>
            /\ result[i].kind = "return"
            /\ result[i].statusCode \in {200, 400, 500}
            /\ \/ Keys(Resp(i)) = {"pelicula", "response"}
               \/ /\ Keys(Resp(i)) = {"error"}
                  /\ Keys(Field(Resp(i), "error")) = {"mensaje", "tipo_error"}

\* ------------------------------------------------------------------ C3
\* C3: when validation passes and put_item raises a ClientError, the
\* response has statusCode 400.
C3_ClientErrorIs400 ==
    \A i \in Instances :
        (Done(i) /\ put[i].called /\ put[i].exc.cls = "ClientError") => Returns(i, 400)

\* ------------------------------------------------------------------ C4
\* C4: every response with statusCode 500 carries the generic message as
\* error.mensaje, never the text of the exception.
C4_GenericMessageOn500 ==
    \A i \in Instances : (Done(i) /\ Returns(i, 500)) => ErrMensaje(i) = Generic

\* ------------------------------------------------------------------ C5
\* C5: with the table configured, a request whose resolved body is a mapping
\* lacking tenant_id or pelicula_datos gets statusCode 400, the error kind of
\* a missing field, and as mensaje exactly the text naming the absent field,
\* tenant_id first.
C5_MissingFieldMessage ==
    \A i \in Instances :
        (Done(i) /\ Configured /\ LacksOne(Resolved(event[i]))) =>
            /\ Returns(i, 400)
            /\ ErrTipo(i) \in {PyStr("MissingFieldError"), PyStr("KeyError")}
            /\ ErrMensaje(i) = IF DictHas(Resolved(event[i]).d, "tenant_id")
                               THEN MissingDatos ELSE MissingTenant

\* ------------------------------------------------------------------ C6
\* C6: with the table name unset or empty, every request gets statusCode 400
\* with the configuration error kind, and put_item is not called.
C6_ConfigurationErrorFirst ==
    \A i \in Instances :
        (Done(i) /\ ~Configured) =>
            /\ Returns(i, 400)
            /\ ErrTipo(i) \in {PyStr("ConfigurationError"), PyStr("RuntimeError")}
            /\ ~put[i].called

\* ------------------------------------------------------------------ C7
\* C7: with the table configured, a non-blank string body that is malformed
\* JSON, or JSON for a value that is no object, gets statusCode 400 with a
\* validation error kind, and put_item is not called.
C7_NonObjectBodyRejected ==
    \A i \in Instances :
        (Done(i) /\ Configured /\ TextBody(event[i]) /\ Resolved(event[i]) = PyNone) =>
            /\ Returns(i, 400)
            /\ ErrTipo(i) \in {PyStr("ValidationError"), PyStr("ValueError"),
                               PyStr("JSONDecodeError")}
            /\ ~put[i].called

\* ------------------------------------------------------------------ C8
SameKey(x, y) ==
    /\ Field(x, "tenant_id") = Field(y, "tenant_id")
    /\ Field(x, "uuid") = Field(y, "uuid")

\* No invocation is running.
Quiet == \A i \in Instances : pc[i] \in {"idle", "done"}

\* C8 as claimed: once the invocations have ended, the items of the table
\* correspond one to one with the invocations that returned 200, so there are
\* as many of the ones as of the others.
C8_OneRecordPerSuccess == Quiet => Cardinality(items) = oks

\* What one step of instance i does to the table.
C8_Step(i) ==
    IF pc[i] = "put" /\ pc'[i] = "wrote"
    THEN /\ pelicula[i] \in items'
         /\ items' \subseteq items \cup {pelicula[i]}
         /\ \A x \in items :
                x \in items' <=> ~SameKey(x, pelicula[i]) \/ x = pelicula[i]
         /\ Cardinality(items') = Cardinality(items) + 1
                <=> ~\E x \in items : SameKey(x, pelicula[i])
         /\ writes' = writes + 1
    ELSE pc'[i] /= pc[i] => (items' = items /\ writes' = writes)

\* How the invocation of instance i ends, against what it did to the table.
C8_End(i) ==
    (pc[i] /= "done" /\ pc'[i] = "done") =>
        /\ (result'[i].kind = "return" /\ result'[i].statusCode = 200) =>
                /\ pc[i] = "wrote" /\ put'[i].written
                /\ Field(LoadsToks(result'[i].body).val, "pelicula") = pelicula[i]
        /\ (result'[i].kind = "return" /\ result'[i].statusCode = 400) =>
                ~put'[i].written
        /\ (put'[i].written /\ ~(result'[i].kind = "return" /\ result'[i].statusCode = 200))
                => (put'[i].exc \in PutItemLost /\ result'[i].statusCode = 500)

\* C8 as amended: an invocation makes at most one put, of the record it
\* built, and the put is unconditional: the record is in the table after it,
\* every item of another (tenant_id, uuid) is kept as it was, an item of the
\* same (tenant_id, uuid) is replaced, and the table grows by one exactly when
\* no item had that key. An invocation returns 200 only after its put was
\* applied, with the record it put; one that returns 400 applied no put; one
\* that returns 500 applied no put unless put_item raised after the table
\* applied the write. No other step changes the table, so the table holds at
\* most as many items as puts were applied, and at most as many invocations
\* returned 200.
C8_UnconditionalPut ==
    [][ /\ \A i \in Instances : C8_Step(i) /\ C8_End(i)
        /\ (\A i \in Instances : pc'[i] = pc[i]) => items' = items
        /\ Cardinality(items') <= writes'
        /\ oks' <= writes' ]_vars

\* Two invocations returned 200 with the same tenant_id and uuid, the put of
\* the second replacing the item of the first.
C8_Witness == Quiet /\ oks = 2 /\ writes = 2 /\ Cardinality(items) = 1

\* ------------------------------------------------------------------ C9
\* What the handler answers for the mapping m the envelope rules resolve to.
C9_AnswerFor(i, m) ==
    IF HasBoth(m)
    THEN /\ pelicula[i].t = "dict"
         /\ Field(pelicula[i], "tenant_id") = Field(m, "tenant_id")
         /\ Field(pelicula[i], "pelicula_datos") = Field(m, "pelicula_datos")
         /\ ~(Returns(i, 400) /\ ErrTipo(i) \in {PyStr("KeyError"), PyStr("JSONDecodeError")})
         /\ put[i].exc = NoExc =>
                /\ Returns(i, 200)
                /\ Field(RespPelicula(i), "tenant_id") = Field(m, "tenant_id")
                /\ Field(RespPelicula(i), "pelicula_datos") = Field(m, "pelicula_datos")
    ELSE /\ Returns(i, 400)
         /\ ErrTipo(i) = PyStr("KeyError")
         /\ ErrMensaje(i).s = IF DictHas(m.d, "tenant_id")
                              THEN "\"Falta 'pelicula_datos' en el body.\""
                              ELSE "\"Falta 'tenant_id' en el body.\""
         /\ ~put[i].called

\* C9: with the table configured, the answer is decided by one body only: the
\* value of the body key when the envelope has one (a mapping as it is, a
\* string decoded, a blank string as the empty mapping), whatever the
\* top-level fields are, and the top-level fields only when there is no body
\* key. A blank string body gets the missing-field 400 naming tenant_id even
\* with both fields at top level.
C9_BodyPriority ==
    \A i \in Instances :
        (Done(i) /\ Configured /\ Resolved(event[i]).t = "dict") =>
            C9_AnswerFor(i, Resolved(event[i]))

C9_Witness ==
    \E i \in Instances :
        /\ Done(i) /\ Configured
        /\ HasBody(event[i]) /\ Blank(BodyOf(event[i]))
        /\ DictHas(event[i].d, "tenant_id") /\ DictHas(event[i].d, "pelicula_datos")
        /\ Returns(i, 400)

\* ----------------------------------------------------------------- C10
\* C10: the first line of every invocation is the INFO entry of the raw
\* event; an invocation that ends without success printed exactly one ERROR
\* entry, its last line, with operacion, estado "error", mensaje, tipo_error,
\* traceback, tabla and entrada_relevante (tenant_id, tiene_pelicula_datos);
\* a success response comes after the INFO "ok" entry, printed after the
\* write, and no ERROR entry.
C10_LogBeforeResponse ==
    \A i \in Instances :
        /\ pc[i] /= "idle" =>
            /\ Len(stdout[i]) >= 1
            /\ Field(LogLine(i, 1), "tipo") = PyStr("INFO")
            /\ Field(LogDatos(i, 1), "evento_entrada") = event[i]
        /\ (Done(i) /\ ~Returns(i, 200)) =>
            /\ ErrorLines(i) = {Len(stdout[i])}
            /\ Keys(LogDatos(i, Len(stdout[i])))
                   = {"operacion", "estado", "mensaje", "tipo_error", "traceback",
                      "tabla", "entrada_relevante"}
            /\ Field(LogDatos(i, Len(stdout[i])), "estado") = PyStr("error")
            /\ Keys(Field(LogDatos(i, Len(stdout[i])), "entrada_relevante"))
                   = {"tenant_id", "tiene_pelicula_datos"}
        /\ (Done(i) /\ Returns(i, 200)) =>
            /\ ErrorLines(i) = {}
            /\ Field(LogDatos(i, Len(stdout[i])), "estado") = PyStr("ok")
            /\ put[i].called /\ put[i].written /\ put[i].exc = NoExc

====
